---- MODULE Spec2Model ----
(***************************************************************************)
(* A model of src/dashboard.py: the ingestion pass                         *)
(* fetch_data_from_nested_folders over a two-level directory tree, the     *)
(* derivation of the numeric score columns, and the mean cards of the      *)
(* Overview section.                                                       *)
(*                                                                         *)
(* Names (folder names, file names, string cells) are sequences of         *)
(* one-character strings, so that str.endswith and the numeric parse are   *)
(* computed on the characters.                                             *)
(***************************************************************************)
EXTENDS Integers, Sequences, FiniteSets, TLC

VARIABLES fs, pc, todoFolders, todoFiles, folder_name, all_data, warnings,
          errors, opened, listed, df, numeric, raised, means

vars == <<fs, pc, todoFolders, todoFiles, folder_name, all_data, warnings,
          errors, opened, listed, df, numeric, raised, means>>

\* The largest number of files in the directory tree.
MaxFiles == 3

-----------------------------------------------------------------------------
\* Cells: what a JSON value or a table cell can be.

Num(n) == [t |-> "num", n |-> n, s |-> <<>>]
Str(s) == [t |-> "str", n |-> 0, s |-> s]
NaN == [t |-> "nan", n |-> 0, s |-> <<>>]

main_folder_path == <<"d", "a", "t", "a">>

score_columns == << "BANT Score", "Call Intent Score", "SPIN Score",
                    "Sentiment Analysis Score", "Detailed Call Score" >>

JSON_SUFFIX == <<".", "j", "s", "o", "n">>

\* A buggy filter: any name with an extension is a candidate.
endswith_AnyExtension(name, suffix) ==
    \E i \in 1..Len(name) : name[i] = suffix[1]

\* str.endswith
endswith(name, suffix) ==
    /\ Len(name) >= Len(suffix)
    /\ SubSeq(name, Len(name) - Len(suffix) + 1, Len(name)) = suffix

IsCandidate(filename) == endswith(filename, JSON_SUFFIX)

\* os.path.join
join(path, name) == Append(path, name)

-----------------------------------------------------------------------------
\* The directory trees the pass is run on.

FolderNames == { <<"a", "l", "i", "c", "e">>, <<"b", "o", "b">> }
\* A first-level name that is only ever a plain file.
StrayNames == { <<"x", ".", "j", "s", "o", "n">> }
RootNames == FolderNames \cup StrayNames

JsonNames == { <<"a", ".", "j", "s", "o", "n">>, <<"b", ".", "j", "s", "o", "n">> }
OtherNames == { <<"c", ".", "t", "x", "t">> }
FileNames == JsonNames \cup OtherNames

EmptyDoc == [k \in {} |-> NaN]

\* A document that carries its own "Folder" and "Filename" keys and no score.
DocProvenance ==
    [k \in {"Folder", "Filename", "Lead City"} |->
        IF k = "Lead City" THEN Str(<<"P", "u", "n", "e">>) ELSE Str(<<"z">>)]

\* A document with the five score fields: numbers, a numeric string and a word.
DocScores ==
    [k \in {"BANT Score", "Call Intent Score", "SPIN Score",
            "Sentiment Analysis Score", "Detailed Call Score"} |->
        CASE k = "BANT Score" -> Num(4)
          [] k = "Call Intent Score" -> Str(<<"7">>)
          [] k = "SPIN Score" -> Str(<<"h", "i", "g", "h">>)
          [] k = "Sentiment Analysis Score" -> Num(4)
          [] OTHER -> Num(6)]

\* A document with one score field only.
DocBant == [k \in {"BANT Score"} |-> Num(6)]

Object(doc) == [state |-> "object", doc |-> doc]
\* Text that json.load rejects.
Malformed == [state |-> "malformed", doc |-> EmptyDoc]
\* Valid JSON whose top-level value is not an object.
NonObject == [state |-> "array", doc |-> EmptyDoc]
\* open or read fails: no permission, a directory of that name, bytes that do not decode.
Unreadable == [state |-> "unreadable", doc |-> EmptyDoc]

JsonContents ==
    {Object(DocProvenance), Object(DocScores), Object(DocBant), Malformed, NonObject, Unreadable}
OtherContents == {Object(DocProvenance)}

FileConfigs ==
    UNION { { f \in [S -> JsonContents \cup OtherContents] :
                \A n \in S : f[n] \in (IF n \in JsonNames THEN JsonContents ELSE OtherContents) }
            : S \in SUBSET FileNames }

NoFiles == [n \in {} |-> Malformed]

PlainFile == [type |-> "file", listable |-> FALSE, files |-> NoFiles]
DeniedDir == [type |-> "dir", listable |-> FALSE, files |-> NoFiles]
Dir(files) == [type |-> "dir", listable |-> TRUE, files |-> files]

EntryStates == {PlainFile, DeniedDir} \cup { Dir(f) : f \in FileConfigs }

RECURSIVE SumOver(_, _)
SumOver(f, S) ==
    IF S = {} THEN 0
    ELSE LET x == CHOOSE y \in S : TRUE IN f[x] + SumOver(f, S \ {x})

NumFiles(entries) ==
    SumOver([r \in DOMAIN entries |-> Cardinality(DOMAIN entries[r].files)], DOMAIN entries)

Trees ==
    UNION { { e \in [S -> EntryStates] :
                /\ NumFiles(e) <= MaxFiles
                /\ \A r \in S \cap StrayNames : e[r] = PlainFile }
            : S \in SUBSET RootNames }

NoEntries == [r \in {} |-> PlainFile]

FileSystems ==
    { [root |-> "ok", entries |-> e] : e \in Trees }
        \cup { [root |-> "denied", entries |-> e] : e \in Trees }
        \cup { [root |-> "missing", entries |-> NoEntries] }

-----------------------------------------------------------------------------
\* The file system calls of the pass and what they raise.

\* A buggy listing: a root that cannot be listed reads as an empty directory.
listdir_root_Silent(f) ==
    [exc |-> "None", names |-> IF f.root = "ok" THEN DOMAIN f.entries ELSE {}]

\* os.listdir(main_folder_path)
listdir_root(f) ==
    CASE f.root = "ok" -> [exc |-> "None", names |-> DOMAIN f.entries]
      [] f.root = "missing" -> [exc |-> "FileNotFoundError", names |-> {}]
      [] OTHER -> [exc |-> "PermissionError", names |-> {}]

\* os.path.isdir(folder_path)
isdir(f, folder) == f.entries[folder].type = "dir"

\* os.listdir(folder_path)
listdir_folder(f, folder) ==
    IF f.entries[folder].listable
    THEN [exc |-> "None", names |-> DOMAIN f.entries[folder].files]
    ELSE [exc |-> "PermissionError", names |-> {}]

\* A buggy assignment that keeps a key the document already has (setdefault).
setitem_KeepExisting(d, key, value) ==
    [k \in DOMAIN d \cup {key} |-> IF k \in DOMAIN d THEN d[k] ELSE value]

\* data[key] = value on a dict
setitem(d, key, value) ==
    [k \in DOMAIN d \cup {key} |-> IF k = key THEN value ELSE d[k]]

\* The body of the inner try: open, json.load, the two item assignments.
\* The exception it ends with ("None": it reached all_data.append) and the record.
LoadFile(f, folder, filename) ==
    LET c == f.entries[folder].files[filename] IN
    CASE c.state = "unreadable" -> [exc |-> "OSError", data |-> EmptyDoc]
      [] c.state = "malformed" -> [exc |-> "JSONDecodeError", data |-> EmptyDoc]
      [] c.state = "array" -> [exc |-> "TypeError", data |-> EmptyDoc]
      [] OTHER ->
            [exc |-> "None",
             data |-> setitem(setitem(c.doc, "Folder", Str(folder)),
                              "Filename", Str(filename))]

\* A buggy inner handler that catches nothing.
InnerCatches_Nothing(exc) == FALSE

\* except json.JSONDecodeError
InnerCatches(exc) == exc = "JSONDecodeError"

\* A buggy outer handler placed inside the loops: the pass goes on.
PcAfterError_Continue == pc

\* except Exception: the handler is outside both loops, the pass ends.
PcAfterError == "return"

-----------------------------------------------------------------------------
\* The table and its derived columns.

RECURSIVE KeysOf(_)
KeysOf(rows) ==
    IF rows = <<>> THEN {} ELSE DOMAIN Head(rows) \cup KeysOf(Tail(rows))

\* pd.DataFrame(all_data)
DataFrame(rows) == [rows |-> rows, columns |-> KeysOf(rows)]

EmptyFrame == [rows |-> <<>>, columns |-> {}]

\* df[col], for a column the frame has: a cell no record gave is NaN.
Column(frame, c) ==
    [i \in 1..Len(frame.rows) |->
        IF c \in DOMAIN frame.rows[i] THEN frame.rows[i][c] ELSE NaN]

Digits == <<"0", "1", "2", "3", "4", "5", "6", "7", "8", "9">>

IsDigit(ch) == \E d \in 1..10 : Digits[d] = ch

DigitValue(ch) == (CHOOSE d \in 1..10 : Digits[d] = ch) - 1

RECURSIVE ParseDigits(_)
ParseDigits(s) ==
    IF s = <<>> THEN 0
    ELSE 10 * ParseDigits(SubSeq(s, 1, Len(s) - 1)) + DigitValue(s[Len(s)])

\* pd.to_numeric(..., errors="coerce") of one cell
to_numeric(cell) ==
    CASE cell.t = "num" -> cell
      [] cell.t = "str" /\ cell.s # <<>> /\ (\A i \in 1..Len(cell.s) : IsDigit(cell.s[i]))
            -> Num(ParseDigits(cell.s))
      [] OTHER -> NaN

RECURSIVE GCD(_, _)
GCD(a, b) == IF b = 0 THEN a ELSE GCD(b, a % b)

Float(num, den) == [t |-> "float", num |-> num \div GCD(num, den), den |-> den \div GCD(num, den)]
FloatNaN == [t |-> "nan", num |-> 0, den |-> 0]
NA == [t |-> "N/A", num |-> 0, den |-> 0]

NonMissing(series) == { i \in 1..Len(series) : series[i].t = "num" }

\* Series.mean(): NaN cells are skipped; NaN when nothing is left.
Mean(series) ==
    IF NonMissing(series) = {} THEN FloatNaN
    ELSE Float(SumOver([i \in NonMissing(series) |-> series[i].n], NonMissing(series)),
               Cardinality(NonMissing(series)))

\* Series.empty
IsEmpty(series) == Len(series) = 0

safe_mean(series) == IF ~IsEmpty(series) THEN Mean(series) ELSE NA

-----------------------------------------------------------------------------
Init ==
    /\ fs \in FileSystems
    /\ pc = "start"
    /\ todoFolders = {}
    /\ todoFiles = {}
    /\ folder_name = <<>>
    /\ all_data = <<>>
    /\ warnings = <<>>
    /\ errors = <<>>
    /\ opened = <<>>
    /\ listed = <<>>
    /\ df = EmptyFrame
    /\ numeric = <<>>
    /\ raised = "None"
    /\ means = <<>>

\* Line 73: os.listdir(main_folder_path).  The order of the listing is the
\* order in which the loop below draws from todoFolders.
ListRoot ==
    /\ pc = "start"
    /\ LET r == listdir_root(fs) IN
         IF r.exc = "None"
         THEN /\ todoFolders' = r.names
              /\ listed' = Append(listed, <<main_folder_path>>)
              /\ pc' = "folders"
              /\ errors' = errors
         ELSE /\ errors' = Append(errors, r.exc)
              /\ pc' = PcAfterError
              /\ UNCHANGED <<todoFolders, listed>>
    /\ UNCHANGED <<fs, todoFiles, folder_name, all_data, warnings, opened,
                   df, numeric, raised, means>>

\* Lines 73-76: the next folder_name, os.path.isdir, os.listdir(folder_path).
VisitFolder ==
    /\ pc = "folders"
    /\ \E name \in todoFolders :
         /\ todoFolders' = todoFolders \ {name}
         /\ IF ~isdir(fs, name)
            THEN UNCHANGED <<pc, folder_name, todoFiles, listed, errors>>
            ELSE LET r == listdir_folder(fs, name) IN
                 IF r.exc = "None"
                 THEN /\ folder_name' = name
                      /\ todoFiles' = r.names
                      /\ listed' = Append(listed, join(<<main_folder_path>>, name))
                      /\ pc' = "files"
                      /\ errors' = errors
                 ELSE /\ errors' = Append(errors, r.exc)
                      /\ pc' = PcAfterError
                      /\ UNCHANGED <<folder_name, todoFiles, listed>>
    /\ UNCHANGED <<fs, all_data, warnings, opened, df, numeric, raised, means>>

\* Line 73: the outer loop is exhausted.
EndFolders ==
    /\ pc = "folders"
    /\ todoFolders = {}
    /\ pc' = "return"
    /\ UNCHANGED <<fs, todoFolders, todoFiles, folder_name, all_data, warnings,
                   errors, opened, listed, df, numeric, raised, means>>

\* Lines 76-86: the next filename of the folder.
VisitFile ==
    /\ pc = "files"
    /\ \E filename \in todoFiles :
         /\ todoFiles' = todoFiles \ {filename}
         /\ IF ~IsCandidate(filename)
            THEN UNCHANGED <<pc, all_data, warnings, errors, opened>>
            ELSE LET file_path == join(join(<<main_folder_path>>, folder_name), filename)
                     r == LoadFile(fs, folder_name, filename)
                 IN  /\ opened' = Append(opened, file_path)
                     /\ CASE r.exc = "None" ->
                               /\ all_data' = Append(all_data, r.data)
                               /\ UNCHANGED <<pc, warnings, errors>>
                          [] r.exc # "None" /\ InnerCatches(r.exc) ->
                               /\ warnings' = Append(warnings, file_path)
                               /\ UNCHANGED <<pc, all_data, errors>>
                          [] OTHER ->
                               /\ errors' = Append(errors, r.exc)
                               /\ pc' = PcAfterError
                               /\ UNCHANGED <<all_data, warnings>>
    /\ UNCHANGED <<fs, todoFolders, folder_name, listed, df, numeric, raised, means>>

\* Line 76: the inner loop is exhausted.
EndFiles ==
    /\ pc = "files"
    /\ todoFiles = {}
    /\ pc' = "folders"
    /\ UNCHANGED <<fs, todoFolders, todoFiles, folder_name, all_data, warnings,
                   errors, opened, listed, df, numeric, raised, means>>

\* Line 90: return pd.DataFrame(all_data); line 98 binds it to df.
Return ==
    /\ pc = "return"
    /\ df' = DataFrame(all_data)
    /\ pc' = "numeric"
    /\ UNCHANGED <<fs, todoFolders, todoFiles, folder_name, all_data, warnings,
                   errors, opened, listed, numeric, raised, means>>

\* Lines 112-113: one turn of the loop over score_columns.  df[col] raises
\* KeyError for a column the frame does not have, which ends the script.
DeriveNumeric ==
    /\ pc = "numeric"
    /\ LET c == score_columns[Len(numeric) + 1] IN
         IF c \in df.columns
         THEN /\ numeric' = Append(numeric,
                    [i \in 1..Len(df.rows) |-> to_numeric(Column(df, c)[i])])
              /\ pc' = IF Len(numeric) + 1 = Len(score_columns) THEN "overview" ELSE "numeric"
              /\ raised' = raised
         ELSE /\ raised' = "KeyError"
              /\ pc' = "crashed"
              /\ numeric' = numeric
    /\ UNCHANGED <<fs, todoFolders, todoFiles, folder_name, all_data, warnings,
                   errors, opened, listed, df, means>>

\* Lines 135-190: the five mean cards of the Overview section.
Overview ==
    /\ pc = "overview"
    /\ means' = [i \in 1..Len(score_columns) |-> safe_mean(numeric[i])]
    /\ pc' = "rendered"
    /\ UNCHANGED <<fs, todoFolders, todoFiles, folder_name, all_data, warnings,
                   errors, opened, listed, df, numeric, raised>>

Next ==
    \/ ListRoot
    \/ VisitFolder
    \/ EndFolders
    \/ VisitFile
    \/ EndFiles
    \/ Return
    \/ DeriveNumeric
    \/ Overview

Spec == Init /\ [][Next]_vars

-----------------------------------------------------------------------------
\* What the claims speak of.

\* The pass has returned: line 90 has run.
Returned == pc \in {"numeric", "overview", "rendered", "crashed"}

\* The files directly inside a first-level subdirectory, as <<folder, filename>>.
FilesInFolders ==
    { p \in RootNames \X FileNames :
        /\ p[1] \in DOMAIN fs.entries
        /\ fs.entries[p[1]].type = "dir"
        /\ p[2] \in DOMAIN fs.entries[p[1]].files }

StateOf(p) == fs.entries[p[1]].files[p[2]].state
DocOf(p) == fs.entries[p[1]].files[p[2]].doc

HasJsonSuffix(name) ==
    /\ Len(name) >= 5
    /\ name[Len(name) - 4] = "."
    /\ name[Len(name) - 3] = "j"
    /\ name[Len(name) - 2] = "s"
    /\ name[Len(name) - 1] = "o"
    /\ name[Len(name)] = "n"

CandidateFiles == { p \in FilesInFolders : HasJsonSuffix(p[2]) }
ObjectFiles == { p \in CandidateFiles : StateOf(p) = "object" }
MalformedFiles == { p \in CandidateFiles : StateOf(p) = "malformed" }
NonObjectFiles == { p \in CandidateFiles : StateOf(p) = "array" }
UnreadableFiles == { p \in CandidateFiles : StateOf(p) = "unreadable" }

PathOf(p) == <<main_folder_path, p[1], p[2]>>

\* Every directory of the tree can be listed.
AllListable ==
    /\ fs.root = "ok"
    /\ \A r \in DOMAIN fs.entries : fs.entries[r].type = "dir" => fs.entries[r].listable

RecordsOf(p) ==
    { i \in 1..Len(all_data) :
        /\ all_data[i]["Folder"] = Str(p[1])
        /\ all_data[i]["Filename"] = Str(p[2]) }

WarningsOf(p) == { i \in 1..Len(warnings) : warnings[i] = PathOf(p) }

OpeningsOf(p) == { i \in 1..Len(opened) : opened[i] = PathOf(p) }

\* C1: after a pass with no fatal error over a tree whose candidate files are
\* all readable, the records are in one-to-one correspondence with the files
\* that sit directly in a first-level subdirectory, end in ".json" and hold a
\* JSON object, each tagged with its folder and file name; first-level plain
\* files and files without the suffix give no record and no warning; the row
\* count of the returned table is the number of objects parsed.
C1_OneRecordPerObjectFile ==
    (Returned /\ errors = <<>> /\ UnreadableFiles = {}) =>
        /\ \A p \in ObjectFiles : Cardinality(RecordsOf(p)) = 1
        /\ \A i \in 1..Len(all_data) : \E p \in ObjectFiles : i \in RecordsOf(p)
        /\ Len(all_data) = Cardinality(ObjectFiles)
        /\ Len(df.rows) = Cardinality(ObjectFiles)
        /\ \A i \in 1..Len(warnings) : \E p \in CandidateFiles : i \in WarningsOf(p)
        /\ \A i \in 1..Len(opened) : \E p \in CandidateFiles : i \in OpeningsOf(p)

C1_Witness ==
    /\ Returned
    /\ errors = <<>>
    /\ Cardinality(ObjectFiles) >= 2
    /\ Len(all_data) >= 2
    /\ \E r \in DOMAIN fs.entries : fs.entries[r].type = "file"
    /\ \E p \in FilesInFolders : ~HasJsonSuffix(p[2])

\* C2: after a pass over N candidate files of which K are malformed and the
\* others valid JSON objects, there are N - K records and K warnings, one per
\* malformed file and naming its path, and no top-level error.
C2_MalformedSkippedWithWarning ==
    (Returned /\ AllListable /\ CandidateFiles = ObjectFiles \cup MalformedFiles) =>
        /\ errors = <<>>
        /\ Len(all_data) = Cardinality(CandidateFiles) - Cardinality(MalformedFiles)
        /\ Len(warnings) = Cardinality(MalformedFiles)
        /\ \A p \in MalformedFiles : Cardinality(WarningsOf(p)) = 1 /\ RecordsOf(p) = {}
        /\ \A p \in CandidateFiles : Cardinality(OpeningsOf(p)) = 1

\* A malformed file was met first and a file read after it gave a record.
C2_Witness ==
    /\ Returned
    /\ AllListable
    /\ CandidateFiles = ObjectFiles \cup MalformedFiles
    /\ Len(opened) >= 3
    /\ \E p \in MalformedFiles : opened[1] = PathOf(p)
    /\ \E p \in ObjectFiles : opened[Len(opened)] = PathOf(p) /\ RecordsOf(p) # {}
    /\ Len(warnings) >= 1

\* C3 (as claimed): a candidate file holding valid JSON that is not an object
\* gives no record and one warning, no top-level error, and the files after it
\* are still processed.
C3_NonObjectSkippedWithWarning ==
    (Returned /\ AllListable
        /\ CandidateFiles = ObjectFiles \cup MalformedFiles \cup NonObjectFiles) =>
        /\ errors = <<>>
        /\ \A p \in NonObjectFiles : Cardinality(WarningsOf(p)) = 1 /\ RecordsOf(p) = {}
        /\ \A p \in CandidateFiles : Cardinality(OpeningsOf(p)) = 1
        /\ Len(all_data) = Cardinality(ObjectFiles)

\* C4 (as claimed): a candidate file that cannot be opened or read is skipped
\* with one warning, is attempted once, gives no top-level error, and the files
\* and folders after it are still processed.
C4_ReadFailureSkippedWithWarning ==
    (Returned /\ AllListable
        /\ CandidateFiles = ObjectFiles \cup MalformedFiles \cup UnreadableFiles) =>
        /\ errors = <<>>
        /\ \A p \in UnreadableFiles : Cardinality(WarningsOf(p)) = 1 /\ RecordsOf(p) = {}
        /\ \A p \in CandidateFiles : Cardinality(OpeningsOf(p)) = 1
        /\ Len(all_data) = Cardinality(ObjectFiles)

\* C5: when the root does not exist or cannot be listed, the pass reports one
\* top-level error and no warning, opens no file and returns no record.
C5_RootFailureIsFatal ==
    (fs.root # "ok" /\ pc # "start") =>
        /\ Len(errors) = 1
        /\ warnings = <<>>
        /\ opened = <<>>
        /\ listed = <<>>
        /\ all_data = <<>>
        /\ Returned => df.rows = <<>>

C5_Witness ==
    /\ fs.root = "denied"
    /\ CandidateFiles # {}
    /\ Returned
    /\ Len(errors) = 1

\* C6 (as claimed): a pass that reported a top-level error returns a table
\* with zero rows, whatever was processed before the error.
C6_FatalErrorGivesEmptyDataset ==
    (Returned /\ errors # <<>>) => df.rows = <<>>

\* C7 (as claimed): deriving the numeric columns never raises, also when no
\* record has the field or the table is empty, and a record without the field
\* has a missing cell in the derived column.
C7_DerivationNeverRaises ==
    /\ raised = "None"
    /\ pc # "crashed"
    /\ \A c \in 1..Len(numeric) : \A i \in 1..Len(df.rows) :
          score_columns[c] \notin DOMAIN df.rows[i] => numeric[c][i] = NaN

\* C8 (as claimed): the mean card of a column is the mean of its non-missing
\* cells, and the sentinel exactly when the column has no non-missing cell.
C8_MeanOrSentinel ==
    pc = "rendered" =>
        \A c \in 1..Len(score_columns) :
            /\ (NonMissing(numeric[c]) = {}) <=> (means[c] = NA)
            /\ NonMissing(numeric[c]) # {} =>
                  /\ means[c].t = "float"
                  /\ means[c].num * Cardinality(NonMissing(numeric[c]))
                        = means[c].den * SumOver([i \in NonMissing(numeric[c]) |-> numeric[c][i].n],
                                                 NonMissing(numeric[c]))

\* The records in the order of the files that gave them.
LoadedPaths ==
    SelectSeq(opened, LAMBDA path :
        \E p \in ObjectFiles : path = PathOf(p))

\* C9: every record carries the name of the containing subdirectory and the
\* file's base name under "Folder" and "Filename", also when the document had
\* those keys with other values, and every other key of the document as it was.
C9_InjectedProvenanceWins ==
    /\ Len(all_data) = Len(LoadedPaths)
    /\ \A i \in 1..Len(all_data) :
          \E p \in ObjectFiles :
              /\ LoadedPaths[i] = PathOf(p)
              /\ all_data[i]["Folder"] = Str(p[1])
              /\ all_data[i]["Filename"] = Str(p[2])
              /\ DOMAIN all_data[i] = DOMAIN DocOf(p) \cup {"Folder", "Filename"}
              /\ \A k \in DOMAIN DocOf(p) \ {"Folder", "Filename"} :
                    all_data[i][k] = DocOf(p)[k]

C9_Witness ==
    \E i \in 1..Len(all_data) : \E p \in ObjectFiles :
        /\ LoadedPaths[i] = PathOf(p)
        /\ "Folder" \in DOMAIN DocOf(p)
        /\ DocOf(p)["Folder"] # Str(p[1])
        /\ "Filename" \in DOMAIN DocOf(p)
        /\ DocOf(p)["Filename"] # Str(p[2])
        /\ "Lead City" \in DOMAIN all_data[i]

\* C10: the top-level error is reported at most once, and after it no folder
\* is listed, no file is opened and the records and warnings never change; a
\* step that reports a warning leaves the pass inside the loop over the files.
C10_ErrorEndsThePassWarningsDoNot ==
    [][ /\ Len(errors') <= 1
        /\ errors # <<>> =>
              /\ errors' = errors
              /\ UNCHANGED <<all_data, warnings, opened, listed>>
        /\ warnings' # warnings =>
              /\ pc' = "files"
              /\ errors' = errors
              /\ Len(warnings') = Len(warnings) + 1 ]_vars

\* An error came after warnings, with a candidate file still not visited.
C10_Witness ==
    /\ Returned
    /\ Len(errors) = 1
    /\ Len(warnings) >= 1
    /\ \E name \in todoFiles : HasJsonSuffix(name)

====
